---- MODULE Spec2Model ----
(***************************************************************************)
(* WebSocket client connection establisher (src/src/connect.rs).           *)
(*                                                                         *)
(* Every invocation of a connect_* entry point is a future that runs from  *)
(* one suspension point (.await) to the next.  An action of this module is *)
(* one such run: the code between two suspension points, together with     *)
(* the result of the I/O operation the future was suspended on.            *)
(***************************************************************************)
EXTENDS Integers, Sequences, FiniteSets, TLC

VARIABLES
    args,      \* args[i]: the entry point called by invocation i and its arguments
    pc,        \* pc[i]: where invocation i stands
    frame,     \* frame[i]: the locals of connect / connect_with_socks_proxy
    result,    \* result[i]: what the call returned to its caller
    sockets,   \* the process's table of TCP sockets, by file descriptor
    trace      \* trace[i]: the steps invocation i has performed, with their results

vars == <<args, pc, frame, result, sockets, trace>>

----------------------------------------------------------------------------
(* Bounds *)

\* Number of concurrent invocations in SpecN.
NumCalls == 2

----------------------------------------------------------------------------
(* Rust's Option and Result *)

None == <<>>
Some(x) == <<x>>
IsSome(o) == o # <<>>
Unwrap(o) == o[1]

Ok(v) == [ok |-> TRUE, v |-> v]
Err(e) == [ok |-> FALSE, v |-> e]

\* Option::or_else
or_else(o, alt) == IF IsSome(o) THEN o ELSE alt

\* Option::ok_or
ok_or(o, e) == IF IsSome(o) THEN Ok(Unwrap(o)) ELSE Err(e)

----------------------------------------------------------------------------
(* Errors (tungstenite::error::Error) *)

UnsupportedUrlScheme == <<"Url", "UnsupportedUrlScheme">>
NoHostName == <<"Url", "NoHostName">>
UnableToConnect(msg) == <<"Url", "UnableToConnect", msg>>
Io(kind) == <<"Io", kind>>
WrongHttpVersion == <<"Protocol", "WrongHttpVersion">>
JunkAfterRequest == <<"Protocol", "JunkAfterRequest">>

----------------------------------------------------------------------------
(* Requests *)

\* A parsed request is its URI: scheme, host and port, each optional.
\* An http::Uri with a scheme always has an authority, and a port is part of
\* the authority, so a URI without a host has neither scheme nor port.
WellFormed(u) == (u.host = None) => (u.scheme = None /\ u.port = None)

UriSet(schemes, hosts, ports) ==
    { u \in [scheme : {None} \cup {Some(s) : s \in schemes},
             host   : {None} \cup {Some(h) : h \in hosts},
             port   : {None} \cup {Some(p) : p \in ports}] : WellFormed(u) }

\* Target URLs the caller may pass.
RequestUris == UriSet({"ws", "wss", "http"}, {"target.example"}, {8080})

\* Proxy URLs the caller may pass.
ProxyUris == UriSet({"socks5", "socks5h", "http"}, {"proxy.example"}, {1080})

\* A value that does not convert into a request.
Malformed == [scheme |-> None, host |-> None, port |-> None, malformed |-> TRUE]

\* IntoClientRequest::into_client_request
into_client_request(r) ==
    IF "malformed" \in DOMAIN r THEN Err(<<"Url", "Conversion">>) ELSE Ok(r)

----------------------------------------------------------------------------
(* URL resolution *)

\* crate::domain: the host of the request's URI.
domain(request) ==
    IF IsSome(request.host) THEN Ok(Unwrap(request.host)) ELSE Err(NoHostName)

WssPort == 443
WsPort == 80

\* connect: the port of the destination (lines 88-96).
port(request) ==
    ok_or(or_else(request.port,
                  CASE request.scheme = Some("wss") -> Some(WssPort)
                    [] request.scheme = Some("ws") -> Some(WsPort)
                    [] OTHER -> None),
          UnsupportedUrlScheme)

\* Faulty variant: socks5h is not among the accepted schemes.
proxy_scheme_without_socks5h(socks_proxy) ==
    CASE socks_proxy.scheme = Some("socks5") \/ socks_proxy.scheme = None -> Ok("socks5")
      [] OTHER -> Err(UnsupportedUrlScheme)

\* connect_with_socks_proxy: the scheme of the proxy URL (lines 116-123).
proxy_scheme(socks_proxy) ==
    CASE socks_proxy.scheme = Some("socks5") \/ socks_proxy.scheme = None -> Ok("socks5")
      [] socks_proxy.scheme = Some("socks5h") -> Ok("socks5")
      [] OTHER -> Err(UnsupportedUrlScheme)

\* Faulty variant: the message does not name the proxy.
port_required_anonymous(proxy_domain) == <<"Port required in socks proxy string">>

\* format!("{proxy_domain}: Port required in socks proxy string")
port_required(proxy_domain) == <<proxy_domain, ": Port required in socks proxy string">>

\* Faulty variant: a proxy URL of scheme socks5 without a port gets port 1080.
proxy_port_defaulted(socks_proxy, proxy_domain) ==
    IF socks_proxy.scheme = Some("socks5") /\ socks_proxy.port = None THEN Ok(1080)
    ELSE ok_or(socks_proxy.port, UnableToConnect(port_required(proxy_domain)))

\* connect_with_socks_proxy: the port of the proxy (lines 124-127).
proxy_port(socks_proxy, proxy_domain) ==
    ok_or(socks_proxy.port, UnableToConnect(port_required(proxy_domain)))

\* Faulty variant: the defaults of ws and wss are exchanged.
destination_port_swapped(request) ==
    ok_or(or_else(request.port,
                  CASE request.scheme = Some("wss") -> Some(WsPort)
                    [] request.scheme = Some("ws") -> Some(WssPort)
                    [] OTHER -> None),
          UnsupportedUrlScheme)

\* connect_with_socks_proxy: the port of the destination (lines 130-138).
destination_port(request) ==
    ok_or(or_else(request.port,
                  CASE request.scheme = Some("wss") -> Some(WssPort)
                    [] request.scheme = Some("ws") -> Some(WsPort)
                    [] OTHER -> None),
          UnsupportedUrlScheme)

\* Faulty variant: the port is determined before the host is looked up.
destination_port_first(request) ==
    LET d == domain(request)
        p == port(request)
    IN  IF ~p.ok THEN Err(p.v)
        ELSE IF ~d.ok THEN Err(d.v)
        ELSE Ok([domain |-> d.v, port |-> p.v])

\* connect: the destination, host first and port second (lines 87-96).
destination(request) ==
    LET d == domain(request)
        p == port(request)
    IN  IF ~d.ok THEN Err(d.v)
        ELSE IF ~p.ok THEN Err(p.v)
        ELSE Ok([domain |-> d.v, port |-> p.v])

\* connect_with_socks_proxy: the proxy, its host, scheme and port in this
\* order (lines 115-127).
proxy_endpoint(socks_proxy) ==
    LET pd == domain(socks_proxy)
        ps == proxy_scheme(socks_proxy)
        pp == proxy_port(socks_proxy, pd.v)
    IN  IF ~pd.ok THEN Err(pd.v)
        ELSE IF ~ps.ok THEN Err(ps.v)
        ELSE IF ~pp.ok THEN Err(pp.v)
        ELSE Ok([domain |-> pd.v, port |-> pp.v])

\* connect_with_socks_proxy: the destination, host first and port second
\* (lines 129-138).
proxy_destination(request) ==
    LET d == domain(request)
        p == destination_port(request)
    IN  IF ~d.ok THEN Err(d.v)
        ELSE IF ~p.ok THEN Err(p.v)
        ELSE Ok([domain |-> d.v, port |-> p.v])

\* format!("{domain}:{port}"), the address handed to TcpStream::connect.
format_addr(d, p) == <<d, ":", p>>

\* The (host, port) a formatted address resolves to.
addr_endpoint(addr) == <<addr[1], addr[3]>>

----------------------------------------------------------------------------
(* Sockets *)

\* The descriptor table has a descriptor for every invocation.
Fds == DOMAIN sockets

\* No socket: the descriptor is free.
Closed == [st |-> "closed", owner |-> 0, peer |-> None, nodelay |-> FALSE,
           socks |-> "none", tls |-> "none"]

\* The lowest free descriptor, 0 when the table is full.
free_fd(socks) ==
    IF \E fd \in DOMAIN socks : socks[fd].st = "closed"
    THEN CHOOSE fd \in DOMAIN socks :
             /\ socks[fd].st = "closed"
             /\ \A g \in DOMAIN socks : socks[g].st = "closed" => fd <= g
    ELSE 0

\* TcpStream::connect creates a socket for invocation i and starts connecting it.
open_socket(socks, fd, i, addr) ==
    IF fd = 0 THEN socks
    ELSE [socks EXCEPT ![fd] = [Closed EXCEPT !.st = "connecting", !.owner = i,
                                              !.peer = Some(addr_endpoint(addr))]]

\* Faulty variant: the streams of all invocations sit in one pool, which is cleared.
drop_pool(socks, fd) == [g \in DOMAIN socks |-> Closed]

\* Drop of a TcpStream: the descriptor is closed.
drop_stream(socks, fd) ==
    IF fd = 0 THEN socks ELSE [socks EXCEPT ![fd] = Closed]

\* Faulty variant: the stream outlives the function that failed.
leak_on_error(socks, fd) == socks

\* A `?` or a failed callee leaves the function: its locals are dropped.
drop_on_error(socks, fd) == drop_stream(socks, fd)

\* Faulty variant: the stream outlives the future that held it.
leak_on_cancel(socks, fd) == socks

\* The pending future is dropped by its caller: its locals are dropped.
drop_on_cancel(socks, fd) == drop_stream(socks, fd)

\* The returned WebSocketStream is dropped by its owner.
drop_session(socks, fd) == drop_stream(socks, fd)

\* TcpStream::set_nodelay(true)
set_nodelay(socks, fd) == [socks EXCEPT ![fd].nodelay = TRUE]

----------------------------------------------------------------------------
(* Collaborators *)

\* What the network does to a TcpStream::connect.
TcpResults == {"ok", "ConnectionRefused"}

\* What setsockopt(TCP_NODELAY) does.
NodelayResults == {"ok", "InvalidInput"}

\* Ok(()) of async_socks5::connect.
SocksOk == <<"ok">>

\* What async_socks5::connect returns: () or an async_socks5::Error, the Io
\* variant of which carries the std::io::Error of the stream.
SocksResults == {SocksOk, <<"Io", "UnexpectedEof">>, <<"Io", "ConnectionReset">>,
                 <<"WrongVersion">>, <<"NoAcceptableMethods">>, <<"GeneralFailure">>}

\* What the peer does during the TLS and WebSocket handshakes: all is well, or
\* exactly one thing goes wrong.
HandshakeResults ==
    { h \in [tls_ok : BOOLEAN, io_ok : BOOLEAN, status : {101, 200}, accept_ok : BOOLEAN] :
        Cardinality({ k \in {"tls", "io", "status", "accept"} :
                        \/ k = "tls" /\ ~h.tls_ok
                        \/ k = "io" /\ ~h.io_ok
                        \/ k = "status" /\ h.status # 101
                        \/ k = "accept" /\ ~h.accept_ok }) <= 1 }

\* crate::tls::client_async_tls_with_config followed by the WebSocket upgrade:
\* the response of a completed upgrade, or the error of the step that failed.
client_async_tls_with_config(request, h) ==
    IF request.scheme \notin {Some("ws"), Some("wss")} THEN Err(UnsupportedUrlScheme)
    ELSE IF request.scheme = Some("wss") /\ ~h.tls_ok THEN Err(<<"Tls", "HandshakeFailure">>)
    ELSE IF ~h.io_ok THEN Err(Io("UnexpectedEof"))
    ELSE IF h.status # 101 THEN Err(<<"Http", h.status>>)
    ELSE IF ~h.accept_ok THEN Err(<<"Protocol", "SecWebSocketAcceptKeyMismatch">>)
    ELSE Ok([status |-> h.status])

\* The TLS state of the stream while the handshakes run.
tls_begin(request) == IF request.scheme = Some("wss") THEN "handshaking" ELSE "none"

\* The TLS state of the stream inside the MaybeTlsStream of a session.
tls_ready(request) == IF request.scheme = Some("wss") THEN "established" ELSE "none"

\* Faulty variant: a version mismatch is mapped like any other SOCKS5 error.
map_socks_err_without_version(err) ==
    CASE err[1] = "Io" -> Io(err[2])
      [] OTHER -> JunkAfterRequest

\* connect_with_socks_proxy: the mapping of async_socks5 errors (lines 143-147).
map_socks_err(err) ==
    CASE err[1] = "Io" -> Io(err[2])
      [] err[1] = "WrongVersion" -> WrongHttpVersion
      [] OTHER -> JunkAfterRequest

----------------------------------------------------------------------------
(* Invocations *)

NoFrame == [fn |-> "none", request |-> None, config |-> None, disable_nagle |-> FALSE,
            connector |-> None, socks_proxy |-> None, domain |-> None, port |-> None,
            proxy_domain |-> None, proxy_port |-> None, socket |-> 0]

Suspended == {"tcp_connect", "socks5", "handshake"}

Log(i, events) == [trace EXCEPT ![i] = @ \o events]

\* The function returns r to the caller; socks is the socket table after the
\* locals have gone out of scope.
Return(i, r, socks, events) ==
    /\ pc' = [pc EXCEPT ![i] = IF r.ok THEN "done" ELSE "error"]
    /\ result' = [result EXCEPT ![i] = Some(r)]
    /\ frame' = [frame EXCEPT ![i] = NoFrame]
    /\ sockets' = socks
    /\ trace' = Log(i, events \o <<<<"return", r>>>>)
    /\ UNCHANGED args

\* The function suspends at `at` with locals f.
Suspend(i, at, f, socks, events) ==
    /\ pc' = [pc EXCEPT ![i] = at]
    /\ frame' = [frame EXCEPT ![i] = f]
    /\ sockets' = socks
    /\ trace' = Log(i, events)
    /\ UNCHANGED <<args, result>>

\* Faulty variant: disable_nagle is ignored.
nagle_ignored(i, f, socks, nd, events) ==
    LET req == Unwrap(f.request)
    IN  Suspend(i, "handshake", f,
                [socks EXCEPT ![f.socket].tls = tls_begin(req)],
                events \o <<<<"handshake", req, f.socket, f.config, f.connector>>>>)

\* if disable_nagle { socket.set_nodelay(true)?; } followed by the call of
\* client_async_tls_with_config (lines 101-105 and 148-152).
nagle_then_handshake(i, f, socks, nd, events) ==
    IF f.disable_nagle /\ nd # "ok"
    THEN Return(i, Err(Io(nd)), drop_on_error(socks, f.socket),
                events \o <<<<"set_nodelay", f.socket, nd>>>>)
    ELSE LET s1 == IF f.disable_nagle THEN set_nodelay(socks, f.socket) ELSE socks
             e1 == IF f.disable_nagle THEN <<<<"set_nodelay", f.socket, nd>>>> ELSE <<>>
             req == Unwrap(f.request)
         IN  Suspend(i, "handshake", f,
                     [s1 EXCEPT ![f.socket].tls = tls_begin(req)],
                     events \o e1 \o
                       <<<<"handshake", req, f.socket, f.config, f.connector>>>>)

\* connect, up to the await of TcpStream::connect (lines 87-99).
connect(i, request, config, disable_nagle, connector) ==
    LET f == [NoFrame EXCEPT !.fn = "connect", !.request = Some(request),
                             !.config = config, !.disable_nagle = disable_nagle,
                             !.connector = connector]
        d == destination(request)
    IN  IF ~d.ok THEN Return(i, Err(d.v), sockets, <<>>)
        ELSE LET addr == format_addr(d.v.domain, d.v.port)
                 fd == free_fd(sockets)
             IN  Suspend(i, "tcp_connect",
                         [f EXCEPT !.domain = Some(d.v.domain), !.port = Some(d.v.port),
                                   !.socket = fd],
                         open_socket(sockets, fd, i, addr),
                         <<<<"tcp_connect", addr>>>>)

\* Faulty variant: a failed TcpStream::connect is tried once more.
connect_tcp_done_retrying(i, io, nd) ==
    /\ pc[i] = "tcp_connect"
    /\ frame[i].fn = "connect"
    /\ frame[i].socket = 0 => io # "ok"
    /\ ~frame[i].disable_nagle \/ io # "ok" => nd = "ok"
    /\ LET f == frame[i]
           ev == <<<<"tcp_connect_result", io>>>>
           addr == format_addr(Unwrap(f.domain), Unwrap(f.port))
       IN  IF io # "ok" /\ Len(trace[i]) = 1
           THEN Suspend(i, "tcp_connect", f, sockets, ev \o <<<<"tcp_connect", addr>>>>)
           ELSE IF io # "ok"
           THEN Return(i, Err(Io(io)), drop_on_error(sockets, f.socket), ev)
           ELSE nagle_then_handshake(i, f, [sockets EXCEPT ![f.socket].st = "open"], nd, ev)

\* connect, from the completion of TcpStream::connect to the await of the
\* handshake (lines 99-105).
connect_tcp_done(i, io, nd) ==
    /\ pc[i] = "tcp_connect"
    /\ frame[i].fn = "connect"
    /\ frame[i].socket = 0 => io # "ok"
    /\ ~frame[i].disable_nagle \/ io # "ok" => nd = "ok"
    /\ LET f == frame[i]
           ev == <<<<"tcp_connect_result", io>>>>
       IN  IF io # "ok"
           THEN Return(i, Err(Io(io)), drop_on_error(sockets, f.socket), ev)
           ELSE nagle_then_handshake(i, f, [sockets EXCEPT ![f.socket].st = "open"], nd, ev)

\* Faulty variant: the session is built on a stream that has been dropped.
connect_handshake_done_dropping(i, h) ==
    /\ pc[i] = "handshake"
    /\ frame[i].fn = "connect"
    /\ LET f == frame[i]
           req == Unwrap(f.request)
           r == client_async_tls_with_config(req, h)
       IN  IF r.ok
           THEN Return(i, Ok([session |-> f.socket, response |-> r.v]),
                       drop_stream(sockets, f.socket),
                       <<<<"handshake_result", <<"Ok">>>>>>)
           ELSE Return(i, Err(r.v), drop_on_error(sockets, f.socket),
                       <<<<"handshake_result", r.v>>>>)

\* connect, the completion of client_async_tls_with_config (line 105).
connect_handshake_done(i, h) ==
    /\ pc[i] = "handshake"
    /\ frame[i].fn = "connect"
    /\ LET f == frame[i]
           req == Unwrap(f.request)
           r == client_async_tls_with_config(req, h)
       IN  IF r.ok
           THEN Return(i, Ok([session |-> f.socket, response |-> r.v]),
                       [sockets EXCEPT ![f.socket].tls = tls_ready(req)],
                       <<<<"handshake_result", <<"Ok">>>>>>)
           ELSE Return(i, Err(r.v), drop_on_error(sockets, f.socket),
                       <<<<"handshake_result", r.v>>>>)

\* Faulty variant: the destination is dialed, not the proxy.
connect_with_socks_proxy_dialing_destination(i, request, config, disable_nagle, connector, socks_proxy) ==
    LET f == [NoFrame EXCEPT !.fn = "connect_with_socks_proxy", !.request = Some(request),
                             !.config = config, !.disable_nagle = disable_nagle,
                             !.connector = connector, !.socks_proxy = Some(socks_proxy)]
        p == proxy_endpoint(socks_proxy)
        d == proxy_destination(request)
    IN  IF ~p.ok THEN Return(i, Err(p.v), sockets, <<>>)
        ELSE IF ~d.ok THEN Return(i, Err(d.v), sockets, <<>>)
        ELSE LET addr == format_addr(d.v.domain, d.v.port)
                 fd == free_fd(sockets)
             IN  Suspend(i, "tcp_connect",
                         [f EXCEPT !.proxy_domain = Some(p.v.domain),
                                   !.proxy_port = Some(p.v.port),
                                   !.domain = Some(d.v.domain), !.port = Some(d.v.port),
                                   !.socket = fd],
                         open_socket(sockets, fd, i, addr),
                         <<<<"tcp_connect", addr>>>>)

\* Faulty variant: the destination is resolved before the proxy URL is validated.
connect_with_socks_proxy_destination_first(i, request, config, disable_nagle, connector, socks_proxy) ==
    LET f == [NoFrame EXCEPT !.fn = "connect_with_socks_proxy", !.request = Some(request),
                             !.config = config, !.disable_nagle = disable_nagle,
                             !.connector = connector, !.socks_proxy = Some(socks_proxy)]
        p == proxy_endpoint(socks_proxy)
        d == proxy_destination(request)
    IN  IF ~d.ok THEN Return(i, Err(d.v), sockets, <<>>)
        ELSE IF ~p.ok THEN Return(i, Err(p.v), sockets, <<>>)
        ELSE LET addr == format_addr(p.v.domain, p.v.port)
                 fd == free_fd(sockets)
             IN  Suspend(i, "tcp_connect",
                         [f EXCEPT !.proxy_domain = Some(p.v.domain),
                                   !.proxy_port = Some(p.v.port),
                                   !.domain = Some(d.v.domain), !.port = Some(d.v.port),
                                   !.socket = fd],
                         open_socket(sockets, fd, i, addr),
                         <<<<"tcp_connect", addr>>>>)

\* connect_with_socks_proxy, up to the await of TcpStream::connect (lines 115-142).
connect_with_socks_proxy(i, request, config, disable_nagle, connector, socks_proxy) ==
    LET f == [NoFrame EXCEPT !.fn = "connect_with_socks_proxy", !.request = Some(request),
                             !.config = config, !.disable_nagle = disable_nagle,
                             !.connector = connector, !.socks_proxy = Some(socks_proxy)]
        p == proxy_endpoint(socks_proxy)
        d == proxy_destination(request)
    IN  IF ~p.ok THEN Return(i, Err(p.v), sockets, <<>>)
        ELSE IF ~d.ok THEN Return(i, Err(d.v), sockets, <<>>)
        ELSE LET addr == format_addr(p.v.domain, p.v.port)
                 fd == free_fd(sockets)
             IN  Suspend(i, "tcp_connect",
                         [f EXCEPT !.proxy_domain = Some(p.v.domain),
                                   !.proxy_port = Some(p.v.port),
                                   !.domain = Some(d.v.domain), !.port = Some(d.v.port),
                                   !.socket = fd],
                         open_socket(sockets, fd, i, addr),
                         <<<<"tcp_connect", addr>>>>)

\* Faulty variant: the SOCKS5 negotiation starts whatever TcpStream::connect returned.
proxy_tcp_done_unchecked(i, io) ==
    /\ pc[i] = "tcp_connect"
    /\ frame[i].fn = "connect_with_socks_proxy"
    /\ frame[i].socket = 0 => io # "ok"
    /\ LET f == frame[i]
           ev == <<<<"tcp_connect_result", io>>>>
           destination_addr == <<Unwrap(f.domain), Unwrap(f.port)>>
       IN  Suspend(i, "socks5", f,
                   [sockets EXCEPT ![f.socket].st = "open",
                                   ![f.socket].socks = "negotiating"],
                   ev \o <<<<"socks5", f.socket, destination_addr, None>>>>)

\* connect_with_socks_proxy, from the completion of TcpStream::connect to the
\* await of async_socks5::connect (lines 142-143).
proxy_tcp_done(i, io) ==
    /\ pc[i] = "tcp_connect"
    /\ frame[i].fn = "connect_with_socks_proxy"
    /\ frame[i].socket = 0 => io # "ok"
    /\ LET f == frame[i]
           ev == <<<<"tcp_connect_result", io>>>>
           destination_addr == <<Unwrap(f.domain), Unwrap(f.port)>>
       IN  IF io # "ok"
           THEN Return(i, Err(Io(io)), drop_on_error(sockets, f.socket), ev)
           ELSE Suspend(i, "socks5", f,
                        [sockets EXCEPT ![f.socket].st = "open",
                                        ![f.socket].socks = "negotiating"],
                        ev \o <<<<"socks5", f.socket, destination_addr, None>>>>)

\* Faulty variant: after a first failed SOCKS5 negotiation the proxy is dialed again.
proxy_socks_done_redialing(i, sr, nd) ==
    /\ pc[i] = "socks5"
    /\ ~frame[i].disable_nagle \/ sr # SocksOk => nd = "ok"
    /\ LET f == frame[i]
           ev == <<<<"socks5_result", sr>>>>
           addr == format_addr(Unwrap(f.proxy_domain), Unwrap(f.proxy_port))
       IN  IF sr # SocksOk /\ Len(trace[i]) = 3
           THEN Suspend(i, "tcp_connect", f, sockets, ev \o <<<<"tcp_connect", addr>>>>)
           ELSE IF sr # SocksOk
           THEN Return(i, Err(map_socks_err(sr)), drop_on_error(sockets, f.socket), ev)
           ELSE nagle_then_handshake(i, f, [sockets EXCEPT ![f.socket].socks = "established"],
                                     nd, ev)

\* connect_with_socks_proxy, from the completion of async_socks5::connect to
\* the await of the handshake (lines 143-152).
proxy_socks_done(i, sr, nd) ==
    /\ pc[i] = "socks5"
    /\ ~frame[i].disable_nagle \/ sr # SocksOk => nd = "ok"
    /\ LET f == frame[i]
           ev == <<<<"socks5_result", sr>>>>
       IN  IF sr # SocksOk
           THEN Return(i, Err(map_socks_err(sr)), drop_on_error(sockets, f.socket), ev)
           ELSE nagle_then_handshake(i, f, [sockets EXCEPT ![f.socket].socks = "established"],
                                     nd, ev)

\* connect_with_socks_proxy, the completion of client_async_tls_with_config (line 152).
proxy_handshake_done(i, h) ==
    /\ pc[i] = "handshake"
    /\ frame[i].fn = "connect_with_socks_proxy"
    /\ LET f == frame[i]
           req == Unwrap(f.request)
           r == client_async_tls_with_config(req, h)
       IN  IF r.ok
           THEN Return(i, Ok([session |-> f.socket, response |-> r.v]),
                       [sockets EXCEPT ![f.socket].tls = tls_ready(req)],
                       <<<<"handshake_result", <<"Ok">>>>>>)
           ELSE Return(i, Err(r.v), drop_on_error(sockets, f.socket),
                       <<<<"handshake_result", r.v>>>>)

----------------------------------------------------------------------------
(* Entry points *)

\* connect_async_with_config (lines 39-48).
connect_async_with_config(i, request, config, disable_nagle) ==
    LET r == into_client_request(request)
    IN  IF ~r.ok THEN Return(i, Err(r.v), sockets, <<>>)
        ELSE connect(i, r.v, config, disable_nagle, None)

\* Faulty variant: the short entry point disables Nagle's algorithm.
connect_async_nodelay(i, request) == connect_async_with_config(i, request, None, TRUE)

\* connect_async (lines 15-22).
connect_async(i, request) == connect_async_with_config(i, request, None, FALSE)

\* connect_async_tls_with_config (lines 69-79).
connect_async_tls_with_config(i, request, config, disable_nagle, connector) ==
    LET r == into_client_request(request)
    IN  IF ~r.ok THEN Return(i, Err(r.v), sockets, <<>>)
        ELSE connect(i, r.v, config, disable_nagle, connector)

\* connect_async_with_config_with_socks_proxy (lines 51-61).
connect_async_with_config_with_socks_proxy(i, request, config, disable_nagle, socks_proxy) ==
    LET r == into_client_request(request)
        p == into_client_request(socks_proxy)
    IN  IF ~r.ok THEN Return(i, Err(r.v), sockets, <<>>)
        ELSE IF ~p.ok THEN Return(i, Err(p.v), sockets, <<>>)
        ELSE connect_with_socks_proxy(i, r.v, config, disable_nagle, None, p.v)

\* connect_async_with_socks_proxy (lines 25-33).
connect_async_with_socks_proxy(i, request, socks_proxy) ==
    connect_async_with_config_with_socks_proxy(i, request, None, FALSE, socks_proxy)

\* The caller's task polls the future of its call for the first time.
CallConnectAsync(i) ==
    /\ pc[i] = "start" /\ args[i].entry = "connect_async"
    /\ connect_async(i, args[i].request)

CallConnectAsyncWithConfig(i) ==
    /\ pc[i] = "start" /\ args[i].entry = "connect_async_with_config"
    /\ connect_async_with_config(i, args[i].request, args[i].config, args[i].disable_nagle)

CallConnectAsyncTlsWithConfig(i) ==
    /\ pc[i] = "start" /\ args[i].entry = "connect_async_tls_with_config"
    /\ connect_async_tls_with_config(i, args[i].request, args[i].config,
                                     args[i].disable_nagle, args[i].connector)

CallConnectAsyncWithSocksProxy(i) ==
    /\ pc[i] = "start" /\ args[i].entry = "connect_async_with_socks_proxy"
    /\ connect_async_with_socks_proxy(i, args[i].request, args[i].socks_proxy)

CallConnectAsyncWithConfigWithSocksProxy(i) ==
    /\ pc[i] = "start" /\ args[i].entry = "connect_async_with_config_with_socks_proxy"
    /\ connect_async_with_config_with_socks_proxy(i, args[i].request, args[i].config,
                                                  args[i].disable_nagle, args[i].socks_proxy)

\* The caller drops the pending future at a suspension point.
Cancel(i) ==
    /\ pc[i] \in Suspended
    /\ pc' = [pc EXCEPT ![i] = "cancelled"]
    /\ sockets' = drop_on_cancel(sockets, frame[i].socket)
    /\ frame' = [frame EXCEPT ![i] = NoFrame]
    /\ trace' = Log(i, <<<<"cancel">>>>)
    /\ UNCHANGED <<args, result>>

\* The caller drops the session a call returned.
DropSession(i) ==
    /\ pc[i] = "done"
    /\ pc' = [pc EXCEPT ![i] = "dropped"]
    /\ sockets' = drop_session(sockets, Unwrap(result[i]).v.session)
    /\ trace' = Log(i, <<<<"drop">>>>)
    /\ UNCHANGED <<args, result, frame>>

----------------------------------------------------------------------------
(* Specifications *)

Options(S) == {None} \cup {Some(x) : x \in S}

Configs == Options({"config"})
Connectors == Options({"connector"})

NoArgs == [entry |-> "none", request |-> Malformed, config |-> None,
           disable_nagle |-> FALSE, connector |-> None, socks_proxy |-> Malformed]

\* Every call a caller can make with the given requests and proxies.
CallsOf(requests, proxies) ==
    { [NoArgs EXCEPT !.entry = "connect_async", !.request = r] : r \in requests }
    \cup { [NoArgs EXCEPT !.entry = "connect_async_with_config", !.request = r,
                          !.config = c, !.disable_nagle = n] :
             r \in requests, c \in Configs, n \in BOOLEAN }
    \cup { [NoArgs EXCEPT !.entry = "connect_async_tls_with_config", !.request = r,
                          !.config = c, !.disable_nagle = n, !.connector = k] :
             r \in requests, c \in Configs, n \in BOOLEAN, k \in Connectors }
    \cup { [NoArgs EXCEPT !.entry = "connect_async_with_socks_proxy", !.request = r,
                          !.socks_proxy = p] :
             r \in requests, p \in proxies }
    \cup { [NoArgs EXCEPT !.entry = "connect_async_with_config_with_socks_proxy",
                          !.request = r, !.config = c, !.disable_nagle = n,
                          !.socks_proxy = p] :
             r \in requests, c \in Configs, n \in BOOLEAN, p \in proxies }

AllCalls == CallsOf(RequestUris \cup {Malformed}, ProxyUris \cup {Malformed})

InitWith(ids, calls) ==
    /\ args \in [ids -> calls]
    /\ pc = [i \in ids |-> "start"]
    /\ frame = [i \in ids |-> NoFrame]
    /\ result = [i \in ids |-> None]
    /\ sockets = [fd \in 1..Cardinality(ids) |-> Closed]
    /\ trace = [i \in ids |-> <<>>]

\* One invocation, any call.
Init == InitWith({1}, AllCalls)

Ids == DOMAIN pc

Next ==
    \/ \E i \in Ids : CallConnectAsync(i)
    \/ \E i \in Ids : CallConnectAsyncWithConfig(i)
    \/ \E i \in Ids : CallConnectAsyncTlsWithConfig(i)
    \/ \E i \in Ids : CallConnectAsyncWithSocksProxy(i)
    \/ \E i \in Ids : CallConnectAsyncWithConfigWithSocksProxy(i)
    \/ \E i \in Ids, io \in TcpResults, nd \in NodelayResults : connect_tcp_done(i, io, nd)
    \/ \E i \in Ids, h \in HandshakeResults : connect_handshake_done(i, h)
    \/ \E i \in Ids, io \in TcpResults : proxy_tcp_done(i, io)
    \/ \E i \in Ids, sr \in SocksResults, nd \in NodelayResults : proxy_socks_done(i, sr, nd)
    \/ \E i \in Ids, h \in HandshakeResults : proxy_handshake_done(i, h)
    \/ \E i \in Ids : Cancel(i)
    \/ \E i \in Ids : DropSession(i)

Spec == Init /\ [][Next]_vars

Ws == [scheme |-> Some("ws"), host |-> Some("target.example"), port |-> Some(8080)]
Wss == [scheme |-> Some("wss"), host |-> Some("target.example"), port |-> None]
Socks5 == [scheme |-> Some("socks5"), host |-> Some("proxy.example"), port |-> Some(1080)]

\* Calls that run side by side: one of each entry point.
SampleCalls ==
    << [NoArgs EXCEPT !.entry = "connect_async", !.request = Ws],
      [NoArgs EXCEPT !.entry = "connect_async_with_config", !.request = Ws,
                     !.disable_nagle = TRUE],
      [NoArgs EXCEPT !.entry = "connect_async_tls_with_config", !.request = Wss,
                     !.connector = Some("connector")],
      [NoArgs EXCEPT !.entry = "connect_async_with_socks_proxy", !.request = Ws,
                     !.socks_proxy = Socks5],
      [NoArgs EXCEPT !.entry = "connect_async_with_config_with_socks_proxy",
                     !.request = Wss, !.disable_nagle = TRUE, !.socks_proxy = Socks5] >>

\* NumCalls invocations of the sample calls, interleaved at their suspension
\* points.  Invocations are interchangeable, so they are numbered in the order
\* of their calls in SampleCalls.
InitN ==
    /\ InitWith(1..NumCalls, { SampleCalls[k] : k \in DOMAIN SampleCalls })
    /\ \E order \in [1..NumCalls -> DOMAIN SampleCalls] :
          /\ \A i \in 1..NumCalls : args[i] = SampleCalls[order[i]]
          /\ \A i, j \in 1..NumCalls : i <= j => order[i] <= order[j]

SpecN == InitN /\ [][Next]_vars

----------------------------------------------------------------------------
(* Vocabulary of the properties *)

ProxyEntries == {"connect_async_with_socks_proxy",
                 "connect_async_with_config_with_socks_proxy"}

OnProxyPath(i) == args[i].entry \in ProxyEntries
OnDirectPath(i) == ~OnProxyPath(i)

IsRequest(r) == "malformed" \notin DOMAIN r

\* The arguments of invocation i converted into requests.
Parsed(i) == IsRequest(args[i].request) /\ (OnProxyPath(i) => IsRequest(args[i].socks_proxy))

Called(i) == pc[i] # "start"
Failed(i) == pc[i] = "error"
Error(i) == Unwrap(result[i]).v

\* The positions of the events of one kind in the trace of invocation i.
Events(i, kind) == { k \in DOMAIN trace[i] : trace[i][k][1] = kind }

\* Invocation i has asked for a TCP connection.
Dialed(i) == Events(i, "tcp_connect") # {}

\* The sockets of invocation i.
Owned(i) == { fd \in Fds : sockets[fd].owner = i }

HasHost(u) == IsSome(u.host)
HasPort(u) == IsSome(u.port)
AcceptedProxyScheme(u) == u.scheme \in {None, Some("socks5"), Some("socks5h")}
ValidProxy(u) == HasHost(u) /\ AcceptedProxyScheme(u) /\ HasPort(u)

\* The port the specification gives a destination.
ExpectedPort(u) ==
    IF HasPort(u) THEN u.port
    ELSE IF u.scheme = Some("wss") THEN Some(443)
    ELSE IF u.scheme = Some("ws") THEN Some(80)
    ELSE None

----------------------------------------------------------------------------
(* Properties *)

\* C1: when a call has returned an error, whichever step failed, no socket
\* opened by that invocation is still open.
NoSocketAfterError ==
    \A i \in Ids : Failed(i) => Owned(i) = {}

\* An invocation fails in the handshake, after it has opened its socket.
NoSocketAfterErrorWitness ==
    \E i \in Ids : Failed(i) /\ Events(i, "handshake") # {}

\* C2: a target URL whose scheme is neither ws nor wss, with or without a
\* port, makes the call fail with UnsupportedUrlScheme, and no TCP connection
\* is attempted before that.
UnsupportedSchemeNeverDials ==
    \A i \in Ids :
        /\ Parsed(i) /\ HasHost(args[i].request)
        /\ OnProxyPath(i) => ValidProxy(args[i].socks_proxy)
        /\ args[i].request.scheme \notin {Some("ws"), Some("wss")}
        => /\ ~Dialed(i)
           /\ Called(i) => Failed(i) /\ Error(i) = UnsupportedUrlScheme

\* C3: for a request with a host (and, on the proxy path, a proxy URL that
\* passes its validation) the destination port is the explicit port, else 443
\* for wss and 80 for ws, else the call fails with UnsupportedUrlScheme; the
\* endpoint dialed on the direct path and the endpoint handed to the SOCKS5
\* negotiation on the proxy path are both the request's host with that port.
PortDetermination ==
    \A i \in Ids :
        /\ Parsed(i) /\ Called(i) /\ HasHost(args[i].request)
        /\ OnProxyPath(i) => ValidProxy(args[i].socks_proxy)
        => LET u == args[i].request
               endpoint == <<Unwrap(u.host), Unwrap(ExpectedPort(u))>>
           IN  IF ExpectedPort(u) = None
               THEN Failed(i) /\ Error(i) = UnsupportedUrlScheme /\ ~Dialed(i)
               ELSE /\ Dialed(i)
                    /\ pc[i] \in Suspended =>
                         <<Unwrap(frame[i].domain), Unwrap(frame[i].port)>> = endpoint
                    /\ OnDirectPath(i) =>
                         \A k \in Events(i, "tcp_connect") :
                             addr_endpoint(trace[i][k][2]) = endpoint
                    /\ OnProxyPath(i) =>
                         \A k \in Events(i, "socks5") : trace[i][k][3] = endpoint

\* A proxied call of a wss URL without a port has started its SOCKS5 negotiation.
PortDeterminationWitness ==
    \E i \in Ids :
        /\ OnProxyPath(i) /\ Parsed(i)
        /\ args[i].request.scheme = Some("wss") /\ ~HasPort(args[i].request)
        /\ Events(i, "socks5") # {}

\* C4: a proxy URL whose scheme is socks5, socks5h or absent passes the scheme
\* validation: the call is not rejected for the proxy's scheme and goes on to
\* dial the proxy; any other proxy scheme makes the call fail with
\* UnsupportedUrlScheme before a socket is opened.
ProxySchemeValidation ==
    \A i \in Ids :
        OnProxyPath(i) /\ Parsed(i) /\ Called(i)
        => LET u == args[i].request
               p == args[i].socks_proxy
           IN  /\ HasHost(p) /\ AcceptedProxyScheme(p)
                    /\ Failed(i) /\ Error(i) = UnsupportedUrlScheme /\ ~Dialed(i)
                  => HasPort(p) /\ HasHost(u) /\ ExpectedPort(u) = None
               /\ ValidProxy(p) /\ HasHost(u) /\ ExpectedPort(u) # None => Dialed(i)
               /\ ~AcceptedProxyScheme(p)
                  => Failed(i) /\ Error(i) = UnsupportedUrlScheme /\ ~Dialed(i)

\* A call through a socks5h proxy has dialed the proxy.
ProxySchemeValidationWitness ==
    \E i \in Ids :
        /\ OnProxyPath(i) /\ Parsed(i)
        /\ args[i].socks_proxy.scheme = Some("socks5h")
        /\ Dialed(i)

\* C5: a proxy URL with a host and an accepted scheme but no port makes the
\* call fail with UnableToConnect, the message of which contains the proxy's
\* hostname, and no socket is opened.
ProxyPortRequired ==
    \A i \in Ids :
        /\ OnProxyPath(i) /\ Parsed(i) /\ Called(i)
        /\ HasHost(args[i].socks_proxy) /\ AcceptedProxyScheme(args[i].socks_proxy)
        /\ ~HasPort(args[i].socks_proxy)
        => /\ Failed(i)
           /\ Len(Error(i)) = 3
           /\ Error(i)[1] = "Url" /\ Error(i)[2] = "UnableToConnect"
           /\ \E k \in DOMAIN Error(i)[3] : Error(i)[3][k] = Unwrap(args[i].socks_proxy.host)
           /\ ~Dialed(i)

\* A call through a proxy URL without a port has returned.
ProxyPortRequiredWitness ==
    \E i \in Ids :
        /\ OnProxyPath(i) /\ Parsed(i) /\ Called(i)
        /\ HasHost(args[i].socks_proxy) /\ AcceptedProxyScheme(args[i].socks_proxy)
        /\ ~HasPort(args[i].socks_proxy)

Carrier(i) ==
    IF Events(i, "handshake") = {} THEN 0
    ELSE trace[i][CHOOSE h \in Events(i, "handshake") : TRUE][3]

\* The endpoint the bytes of the WebSocket leave the process for.
CarrierPeer(i) ==
    IF OnProxyPath(i)
    THEN <<Unwrap(args[i].socks_proxy.host), Unwrap(args[i].socks_proxy.port)>>
    ELSE <<Unwrap(args[i].request.host), Unwrap(ExpectedPort(args[i].request))>>

\* C7: with disable_nagle, TCP_NODELAY is set on the socket that carries the
\* WebSocket (the destination socket on the direct path, the proxy socket on
\* the proxy path) before the handshake starts, and on the proxy path only
\* after the SOCKS5 negotiation has succeeded; without disable_nagle it is
\* never set; a failure to set it ends the call with an Io error.
NagleDisabledOnCarrier ==
    \A i \in Ids :
        LET nd == Events(i, "set_nodelay")
            hs == Events(i, "handshake")
            tr == trace[i]
        IN  /\ args[i].disable_nagle =>
                 /\ \A h \in hs : \E k \in nd :
                        k < h /\ tr[k][2] = tr[h][3] /\ tr[k][3] = "ok"
                 /\ pc[i] \in {"handshake", "done"} =>
                        /\ Carrier(i) \in Owned(i)
                        /\ sockets[Carrier(i)].nodelay
                        /\ sockets[Carrier(i)].peer = Some(CarrierPeer(i))
                 /\ OnProxyPath(i) =>
                        \A k \in nd : \E s \in Events(i, "socks5_result") :
                            s < k /\ tr[s][2] = SocksOk
            /\ ~args[i].disable_nagle =>
                 /\ nd = {}
                 /\ \A fd \in Owned(i) : ~sockets[fd].nodelay
            /\ \A k \in nd : tr[k][3] # "ok" =>
                 Failed(i) /\ Error(i)[1] = "Io" /\ hs = {}

\* A proxied call with disable_nagle has returned its session.
NagleDisabledOnCarrierWitness ==
    \E i \in Ids : OnProxyPath(i) /\ args[i].disable_nagle /\ pc[i] = "done"

\* C8: when a call has returned success, the TCP socket of the returned
\* session is open and the returned response has status 101.
SuccessIsOpenAnd101 ==
    \A i \in Ids :
        pc[i] = "done"
        => LET r == Unwrap(result[i])
           IN  /\ r.ok
               /\ r.v.session \in Fds
               /\ sockets[r.v.session].st = "open"
               /\ sockets[r.v.session].owner = i
               /\ r.v.response.status = 101

\* A direct call has returned its session.
SuccessIsOpenAnd101Witness ==
    \E i \in Ids : OnDirectPath(i) /\ pc[i] = "done"

\* C9: after the caller has dropped a pending call at a suspension point, no
\* socket opened by that invocation is open, and with it no SOCKS5 negotiation
\* or TLS handshake of that invocation.
NoSocketAfterCancel ==
    \A i \in Ids :
        pc[i] = "cancelled"
        => /\ Owned(i) = {}
           /\ result[i] = None
           /\ \A fd \in Fds :
                sockets[fd].socks = "negotiating" \/ sockets[fd].tls = "handshaking"
                => sockets[fd].owner \in Ids \ {i}

\* A call has been cancelled during its SOCKS5 negotiation.
NoSocketAfterCancelWitness ==
    \E i \in Ids :
        /\ pc[i] = "cancelled"
        /\ Events(i, "socks5") # {}
        /\ Events(i, "socks5_result") = {}

\* The sockets invocation i has a handle of: the socket of its pending future
\* or of its returned session.
Holds(i) ==
    IF pc[i] \in Suspended THEN {frame[i].socket} \ {0}
    ELSE IF pc[i] = "done" THEN {Unwrap(result[i]).v.session}
    ELSE {}

\* Every socket belongs to exactly one invocation, the one that holds it.
ExclusiveOwnership ==
    /\ \A i \in Ids : Holds(i) = Owned(i)
    /\ \A i, j \in Ids : i # j => Holds(i) \cap Holds(j) = {}
    /\ \A fd \in Fds : sockets[fd].st # "closed" => sockets[fd].owner \in Ids

\* The results of the I/O operations of an invocation, in order.
IoResults(tr) ==
    LET io == SelectSeq(tr, LAMBDA e : e[1] \in {"tcp_connect_result", "socks5_result",
                                                 "set_nodelay", "handshake_result"})
    IN  [k \in DOMAIN io |-> IF io[k][1] = "set_nodelay" THEN <<io[k][1], io[k][3]>>
                             ELSE io[k]]

\* What invocation i returned, the descriptor of its session aside.
Outcome(i) ==
    LET r == Unwrap(result[i])
    IN  IF r.ok THEN <<"Ok", r.v.response>> ELSE <<"Err", r.v>>

\* Two invocations with the same arguments and the same I/O results return the same.
OwnInputsDecide ==
    \A i, j \in Ids :
        /\ args[i] = args[j]
        /\ result[i] # None /\ result[j] # None
        /\ IoResults(trace[i]) = IoResults(trace[j])
        => Outcome(i) = Outcome(j)

\* A step is the step of one invocation: it leaves the state and the sockets
\* of every other invocation as they are.
OneInvocationSteps ==
    \E j \in Ids : \A i \in Ids \ {j} :
        /\ args'[i] = args[i] /\ pc'[i] = pc[i] /\ frame'[i] = frame[i]
        /\ result'[i] = result[i] /\ trace'[i] = trace[i]
        /\ \A fd \in Fds :
             sockets[fd].owner = i \/ sockets'[fd].owner = i => sockets'[fd] = sockets[fd]

\* C10: of invocations interleaved at their suspension points, every socket is
\* owned by exactly one, the outcome of each depends on its own arguments and
\* its own I/O results only, and a step of one (its failure, its cancellation,
\* the drop of its session) leaves the sockets and the state of the others
\* unchanged.
IndependentInvocations ==
    [](ExclusiveOwnership /\ OwnInputsDecide) /\ [][OneInvocationSteps]_vars

\* One invocation holds its session and its open socket while another, which
\* had opened a socket too, has failed, has been cancelled or has dropped its
\* session.
IndependentInvocationsWitness ==
    \E i, j \in Ids :
        /\ i # j
        /\ pc[i] = "done" /\ sockets[Unwrap(result[i]).v.session].st = "open"
        /\ pc[j] \in {"error", "cancelled", "dropped"}
        /\ Events(j, "tcp_connect") # {}

\* C11: a returned session is backed by exactly one TCP connection, opened by
\* its invocation: on the direct path a connection to the resolved destination
\* that has seen no SOCKS5 negotiation; on the proxy path a connection to the
\* proxy's host and port that has completed the SOCKS5 negotiation, the only
\* address the invocation has dialed.
OneConnectionBacksSession ==
    \A i \in Ids :
        pc[i] = "done"
        => LET fd == Unwrap(result[i]).v.session
               tr == trace[i]
           IN  /\ Owned(i) = {fd}
               /\ sockets[fd].st = "open"
               /\ Cardinality(Events(i, "tcp_connect")) = 1
               /\ \A k \in Events(i, "tcp_connect") :
                      addr_endpoint(tr[k][2]) = CarrierPeer(i)
               /\ sockets[fd].peer = Some(CarrierPeer(i))
               /\ IF OnProxyPath(i)
                  THEN /\ sockets[fd].socks = "established"
                       /\ \E k \in Events(i, "socks5") : tr[k][2] = fd
                       /\ \E k \in Events(i, "socks5_result") : tr[k][2] = SocksOk
                  ELSE /\ sockets[fd].socks = "none"
                       /\ Events(i, "socks5") = {}

\* A proxied call has returned its session.
OneConnectionBacksSessionWitness ==
    \E i \in Ids : OnProxyPath(i) /\ pc[i] = "done"

----------------------------------------------------------------------------
(* Two calls side by side *)

\* A short entry point next to the configured one it stands for, with the
\* defaults; and connect_async_with_config next to the entry point that takes
\* a connector, without a connector.
DefaultPairs ==
    { << [NoArgs EXCEPT !.entry = "connect_async", !.request = r],
         [NoArgs EXCEPT !.entry = "connect_async_with_config", !.request = r] >> :
        r \in RequestUris \cup {Malformed} }
    \cup { << [NoArgs EXCEPT !.entry = "connect_async_with_socks_proxy", !.request = r,
                             !.socks_proxy = p],
              [NoArgs EXCEPT !.entry = "connect_async_with_config_with_socks_proxy",
                             !.request = r, !.socks_proxy = p] >> :
             r \in RequestUris \cup {Malformed}, p \in ProxyUris \cup {Malformed} }
    \cup { << [NoArgs EXCEPT !.entry = "connect_async_with_config", !.request = r,
                             !.config = c, !.disable_nagle = n],
              [NoArgs EXCEPT !.entry = "connect_async_tls_with_config", !.request = r,
                             !.config = c, !.disable_nagle = n] >> :
             r \in RequestUris \cup {Malformed}, c \in Configs, n \in BOOLEAN }

\* The same proxied call twice, but for the scheme of the proxy URL, which is
\* socks5, socks5h or absent in both.
SchemePairs ==
    { pr \in { << a, [a EXCEPT !.socks_proxy.scheme = s] >> :
                 a \in { c \in CallsOf(RequestUris, ProxyUris) :
                           /\ c.entry \in {"connect_async_with_socks_proxy",
                                           "connect_async_with_config_with_socks_proxy"}
                           /\ c.config = None
                           /\ IsSome(c.socks_proxy.host)
                           /\ c.socks_proxy.scheme \in {Some("socks5"), Some("socks5h")} },
                 s \in {None, Some("socks5h")} } :
        pr[1] # pr[2] }

\* Invocations 1 and 2 are the two calls of a pair.
InitPair ==
    /\ InitWith({1, 2}, {p[1] : p \in DefaultPairs \cup SchemePairs}
                          \cup {p[2] : p \in DefaultPairs \cup SchemePairs})
    /\ <<args[1], args[2]>> \in DefaultPairs \cup SchemePairs

SpecPair == InitPair /\ [][Next]_vars

\* The trace of an invocation without the numbers of its descriptors.
Steps(tr) ==
    [k \in DOMAIN tr |->
        LET e == tr[k]
        IN  CASE e[1] = "set_nodelay" -> <<e[1], e[3]>>
              [] e[1] = "socks5" -> <<e[1], e[3], e[4]>>
              [] e[1] = "handshake" -> <<e[1], e[2], e[4], e[5]>>
              [] e[1] = "return" ->
                   IF e[2].ok THEN <<e[1], "Ok", e[2].v.response>>
                   ELSE <<e[1], "Err", e[2].v>>
              [] OTHER -> e]

\* Two events that differ by what the world outside the invocation did: the
\* results of two I/O operations, or what the caller did with the future or
\* the session.
OutsideDiffers(e1, e2) ==
    \/ /\ e1[1] \in {"tcp_connect_result", "socks5_result", "handshake_result",
                     "cancel", "drop"}
       /\ e2[1] \in {"tcp_connect_result", "socks5_result", "handshake_result",
                     "cancel", "drop"}
    \/ e1[1] = "set_nodelay" /\ e2[1] = "set_nodelay"

\* Invocations i and j do the same steps with the same arguments and return
\* the same as long as the world outside does the same to both: where their
\* traces part, they part by what the outside did.
SameBehaviour(i, j) ==
    LET si == Steps(trace[i])
        sj == Steps(trace[j])
    IN  \A k \in DOMAIN si \cap DOMAIN sj :
            (\A m \in 1..(k - 1) : si[m] = sj[m]) /\ si[k] # sj[k]
            => OutsideDiffers(si[k], sj[k])

\* C12: connect_async(req) does the steps and returns the outcome of
\* connect_async_with_config(req, None, false), and
\* connect_async_with_socks_proxy(req, proxy) those of
\* connect_async_with_config_with_socks_proxy(req, None, false, proxy), for
\* every request, every proxy and every result of the I/O.
ShortEntriesAreDefaults ==
    args[1].entry \in {"connect_async", "connect_async_with_socks_proxy"}
    => SameBehaviour(1, 2)

\* A call of connect_async and the call of connect_async_with_config it stands
\* for have both returned a session.
ShortEntriesAreDefaultsWitness ==
    /\ args[1].entry = "connect_async"
    /\ args[2].entry = "connect_async_with_config"
    /\ pc[1] = "done" /\ pc[2] = "done"

\* The event before which step k of a trace started, set_nodelay apart.
Predecessor(tr, k) ==
    IF k > 1 /\ tr[k - 1][1] = "set_nodelay" THEN k - 2 ELSE k - 1

\* C13: within one invocation each step starts only after its predecessor has
\* succeeded: TcpStream::connect is the first step and starts only when the
\* destination (and, on the proxy path, the proxy) has been resolved, the
\* SOCKS5 negotiation starts only on the success of TcpStream::connect, the
\* handshake only on the success of TcpStream::connect on the direct path and
\* of the SOCKS5 negotiation on the proxy path (and of set_nodelay, when it is
\* called), and a session is returned only on the success of the handshake.
StepsInOrder ==
    \A i \in Ids :
        LET tr == trace[i]
            u == args[i].request
        IN  /\ \A k \in Events(i, "tcp_connect") :
                   /\ k = 1
                   /\ Parsed(i) /\ HasHost(u) /\ ExpectedPort(u) # None
                   /\ OnProxyPath(i) => ValidProxy(args[i].socks_proxy)
            /\ \A k \in Events(i, "tcp_connect_result") :
                   k > 1 /\ tr[k - 1][1] = "tcp_connect"
            /\ \A k \in Events(i, "socks5") :
                   /\ OnProxyPath(i)
                   /\ k > 1 /\ tr[k - 1] = <<"tcp_connect_result", "ok">>
            /\ \A k \in Events(i, "socks5_result") :
                   k > 1 /\ tr[k - 1][1] = "socks5"
            /\ \A k \in Events(i, "set_nodelay") :
                   /\ args[i].disable_nagle
                   /\ k > 1
                   /\ tr[k - 1] = IF OnProxyPath(i) THEN <<"socks5_result", SocksOk>>
                                  ELSE <<"tcp_connect_result", "ok">>
            /\ \A k \in Events(i, "handshake") :
                   LET m == Predecessor(tr, k)
                   IN  /\ m >= 1
                       /\ tr[m] = IF OnProxyPath(i) THEN <<"socks5_result", SocksOk>>
                                  ELSE <<"tcp_connect_result", "ok">>
                       /\ Events(i, "tcp_connect_result") # {}
                       /\ \A n \in Events(i, "tcp_connect_result") : n < k /\ tr[n][2] = "ok"
                       /\ m = k - 2 => tr[k - 1][3] = "ok"
                       /\ args[i].disable_nagle => m = k - 2
            /\ \A k \in Events(i, "handshake_result") :
                   k > 1 /\ tr[k - 1][1] = "handshake"
            /\ pc[i] = "done"
               => /\ Len(tr) >= 2
                  /\ tr[Len(tr)][1] = "return"
                  /\ tr[Len(tr) - 1] = <<"handshake_result", <<"Ok">>>>
                  /\ sockets[Unwrap(result[i]).v.session].st = "open"

\* A proxied call that disables Nagle's algorithm has returned a session.
StepsInOrderWitness ==
    \E i \in Ids : OnProxyPath(i) /\ args[i].disable_nagle /\ pc[i] = "done"

\* The request of invocation i has no destination: no host, or no port and a
\* scheme other than ws and wss.
Unresolvable(u) == ~HasHost(u) \/ ExpectedPort(u) = None

\* The error of resolving the destination of a request that has none.
ResolutionError(u) == IF ~HasHost(u) THEN NoHostName ELSE UnsupportedUrlScheme

StepFailed(tr, k) ==
    CASE tr[k][1] = "tcp_connect_result" -> tr[k][2] # "ok"
      [] tr[k][1] = "socks5_result" -> tr[k][2] # SocksOk
      [] tr[k][1] = "set_nodelay" -> tr[k][3] # "ok"
      [] tr[k][1] = "handshake_result" -> tr[k][2] # <<"Ok">>
      [] OTHER -> FALSE

\* The error the call returns for the failure that is event k of trace tr.
MappedError(tr, k) ==
    CASE tr[k][1] = "tcp_connect_result" -> <<"Io", tr[k][2]>>
      [] tr[k][1] = "socks5_result" ->
           IF tr[k][2][1] = "Io" THEN <<"Io", tr[k][2][2]>>
           ELSE IF tr[k][2][1] = "WrongVersion" THEN <<"Protocol", "WrongHttpVersion">>
           ELSE <<"Protocol", "JunkAfterRequest">>
      [] tr[k][1] = "set_nodelay" -> <<"Io", tr[k][3]>>
      [] tr[k][1] = "handshake_result" -> tr[k][2]

\* C15: the first failing step aborts the invocation: the failure of a step is
\* followed by nothing but the return of that step's mapped error, no step is
\* run twice (at most one TcpStream::connect, one SOCKS5 negotiation, one
\* set_nodelay and one handshake per invocation), and a call that failed
\* returned an error and no session.
FirstFailureAborts ==
    \A i \in Ids :
        LET tr == trace[i]
        IN  /\ \A kind \in {"tcp_connect", "socks5", "set_nodelay", "handshake", "return"} :
                   Cardinality(Events(i, kind)) <= 1
            /\ \A k \in DOMAIN tr :
                   StepFailed(tr, k)
                   => /\ Len(tr) = k + 1
                      /\ tr[k + 1] = <<"return", Err(MappedError(tr, k))>>
                      /\ Failed(i)
                      /\ result[i] = Some(Err(MappedError(tr, k)))
            /\ Failed(i)
               => /\ ~Unwrap(result[i]).ok
                  /\ Owned(i) = {}
                  /\ tr[Len(tr)] = <<"return", Unwrap(result[i])>>
            /\ pc[i] = "done" => \A k \in DOMAIN tr : ~StepFailed(tr, k)

\* A proxied call has failed in its SOCKS5 negotiation.
FirstFailureAbortsWitness ==
    \E i \in Ids :
        /\ Failed(i)
        /\ \E k \in Events(i, "socks5_result") : StepFailed(trace[i], k)

\* The three kinds of failure of async_socks5::connect.
SocksErrorKind(sr) ==
    IF sr[1] = "Io" THEN "io"
    ELSE IF sr[1] = "WrongVersion" THEN "version"
    ELSE "other"

\* C16: a call whose SOCKS5 negotiation fails returns Io with the underlying
\* error when that was an I/O error, Protocol(WrongHttpVersion) when the peer
\* answered with another protocol version, and Protocol(JunkAfterRequest) for
\* every other SOCKS5 error; every failure of the negotiation falls under one
\* of the three and failures of different kinds return different errors.
SocksErrorMapping ==
    /\ \A i \in Ids :
           \A k \in Events(i, "socks5_result") :
               LET sr == trace[i][k][2]
               IN  sr # SocksOk
                   => /\ Failed(i)
                      /\ SocksErrorKind(sr) = "io" => Error(i) = <<"Io", sr[2]>>
                      /\ SocksErrorKind(sr) = "version"
                           => Error(i) = <<"Protocol", "WrongHttpVersion">>
                      /\ SocksErrorKind(sr) = "other"
                           => Error(i) = <<"Protocol", "JunkAfterRequest">>
    /\ \A a, b \in SocksResults \ {SocksOk} :
           /\ map_socks_err(a) = IF SocksErrorKind(a) = "io" THEN Io(a[2])
                                 ELSE IF SocksErrorKind(a) = "version" THEN WrongHttpVersion
                                 ELSE JunkAfterRequest
           /\ SocksErrorKind(a) # SocksErrorKind(b) => map_socks_err(a) # map_socks_err(b)
           /\ SocksErrorKind(a) = "io" /\ SocksErrorKind(b) = "io" /\ a # b
                => map_socks_err(a) # map_socks_err(b)

\* A proxied call has returned after the proxy answered with another protocol
\* version.
SocksErrorMappingWitness ==
    \E i \in Ids :
        /\ Failed(i)
        /\ \E k \in Events(i, "socks5_result") : trace[i][k][2] = <<"WrongVersion">>

\* Invocations i and j are the same proxied call, but for the scheme of the
\* proxy URL, which is socks5, socks5h or absent in both.
DifferInProxyScheme(i, j) ==
    /\ OnProxyPath(i) /\ OnProxyPath(j)
    /\ Parsed(i) /\ Parsed(j)
    /\ AcceptedProxyScheme(args[i].socks_proxy)
    /\ AcceptedProxyScheme(args[j].socks_proxy)
    /\ args[i].socks_proxy.scheme # args[j].socks_proxy.scheme
    /\ [args[i] EXCEPT !.socks_proxy.scheme = None]
         = [args[j] EXCEPT !.socks_proxy.scheme = None]

\* C17: two proxied calls that differ only in the scheme of the proxy URL
\* (socks5, socks5h or absent) and get the same results from their I/O do the
\* same steps with the same arguments and return the same: both dial the
\* proxy's host and port, hand the same destination and no credentials to the
\* SOCKS5 negotiation, and neither fails on the proxy's scheme.
ProxySchemeIrrelevant ==
    DifferInProxyScheme(1, 2)
    => /\ SameBehaviour(1, 2)
       /\ \A i \in {1, 2} :
              LET p == args[i].socks_proxy
              IN  /\ \A k \in Events(i, "tcp_connect") :
                         /\ HasHost(p) /\ HasPort(p)
                         /\ addr_endpoint(trace[i][k][2]) = <<Unwrap(p.host), Unwrap(p.port)>>
                  /\ \A k \in Events(i, "socks5") :
                         /\ trace[i][k][3] = <<Unwrap(args[i].request.host),
                                               Unwrap(ExpectedPort(args[i].request))>>
                         /\ trace[i][k][4] = None
       /\ Called(1) /\ Called(2) /\ ~Dialed(1) => ~Dialed(2) /\ Error(1) = Error(2)

\* A call through a socks5h proxy and the same call through the proxy without
\* a scheme have both returned a session.
ProxySchemeIrrelevantWitness ==
    /\ DifferInProxyScheme(1, 2)
    /\ args[1].socks_proxy.scheme = Some("socks5h")
    /\ args[2].socks_proxy.scheme = None
    /\ pc[1] = "done" /\ pc[2] = "done"

----------------------------------------------------------------------------
(* Termination *)

\* The executor polls the future an entry point returned.
Polled ==
    \E i \in Ids :
        \/ CallConnectAsync(i)
        \/ CallConnectAsyncWithConfig(i)
        \/ CallConnectAsyncTlsWithConfig(i)
        \/ CallConnectAsyncWithSocksProxy(i)
        \/ CallConnectAsyncWithConfigWithSocksProxy(i)

\* An awaited I/O operation returns, with success or with failure, and the
\* future is polled again.
IoReturns ==
    \E i \in Ids :
        \/ \E io \in TcpResults, nd \in NodelayResults : connect_tcp_done(i, io, nd)
        \/ \E h \in HandshakeResults : connect_handshake_done(i, h)
        \/ \E io \in TcpResults : proxy_tcp_done(i, io)
        \/ \E sr \in SocksResults, nd \in NodelayResults : proxy_socks_done(i, sr, nd)
        \/ \E h \in HandshakeResults : proxy_handshake_done(i, h)

\* One invocation, any call; the future is polled and every I/O operation it
\* awaits returns in the end.
SpecLive == Init /\ [][Next]_vars /\ WF_vars(Polled) /\ WF_vars(IoReturns)

\* The position of a state in the order of the steps.
Rank(p) ==
    CASE p = "start" -> 0
      [] p = "tcp_connect" -> 1
      [] p = "socks5" -> 2
      [] p = "handshake" -> 3
      [] p \in {"done", "error", "cancelled"} -> 4
      [] p = "dropped" -> 5

\* Every step of an invocation takes it to a later state.
Forward ==
    /\ \E i \in Ids : pc'[i] # pc[i]
    /\ \A i \in Ids : pc'[i] # pc[i] => Rank(pc'[i]) > Rank(pc[i])

\* C18: when every I/O operation an invocation awaits returns in the end, the
\* invocation, unless its caller drops the future, gets to done (a session is
\* returned) or to error (an error is returned); and the states of an
\* invocation are linear: every step leads to a later state, none back to an
\* earlier one or to the same.
EventuallyReturns ==
    /\ \A i \in {1} : [](pc[i] # "cancelled") => <>(pc[i] \in {"done", "error"})
    /\ [][Forward]_vars

\* A direct call that disables Nagle's algorithm has gone through all its
\* steps and returned a session.
EventuallyReturnsWitness ==
    \E i \in Ids : OnDirectPath(i) /\ args[i].disable_nagle /\ pc[i] = "done"

====
